---- MODULE Spec2Model ----
(***************************************************************************)
(* LanguageAnalyser: the chunked ingestion of AnalyserTemplate             *)
(* (load_resource, pre_process_resource, generate_chunk,                   *)
(* pre_process_chunk) and the map / merge of the analysers                 *)
(* (Frequency, SpecificCollocate).                                         *)
(*                                                                         *)
(* A raw file is a sequence of bytes (0..255), a text a sequence of code   *)
(* points.  A partition directory is a function from the slot indices     *)
(* that exist (a subset of 0..NSlots-1) to the text of the file.           *)
(***************************************************************************)
EXTENDS Integers, Sequences, FiniteSets, TLC

VARIABLES
    \* the file system and the configuration (config.json)
    disk,             \* name -> bytes of the raw files kept in the state
    files,            \* glob(resource_folder/<language>.*): the names, in glob order
    resource_folder,  \* os.path.isdir(self.resource_folder)
    chunk_size,       \* self.chunk_size
    n_processors,     \* self.configs["n_processors"]
    dirExists,        \* os.path.exists(self.pre_processed_folder)
    parts,            \* slot index -> text of <language>_part_NNN.txt
    \* the main thread (load_resource / pre_process_resource)
    pc,               \* "init" | "file" | "walk" | "loaded" | "error"
    err,              \* the exception that ended the run ("" for none)
    fidx,             \* position of `filename` in `files` (for filename in files)
    file_size,        \* self.file_size
    pool,             \* self.pool: the partition slots glob lists
    \* the generator generate_chunk(filename)
    gpc,              \* "idle" | "run" | "end" | "raised"
    p,                \* chunk start byte
    rpos,             \* read position of the open file `resource`
    overlap,          \* trailing line string carried to the next window
    \* the Pool of pre_process_resource
    tasks,            \* chunks yielded and not yet taken by a worker
    workers,          \* worker -> [st, text, slot]
    \* history of the runs
    runs,             \* number of program runs started (calls of load_resource)
    ingested,         \* this run called pre_process_resource
    atLoad,           \* [exists, parts]: the directory when load_resource was called
    written,          \* partition files opened for writing during this run
    dropped,          \* chunks for which pre_process_chunk found no slot and returned
    yielded,          \* the chunks generate_chunk yielded for the current file
    skipped,          \* a window of the current file failed to decode
    \* the analysis (execute of Frequency / SpecificCollocate /
    \* GeneralCollocateAnalysis / PoSFrequency)
    task,             \* "none" | "frequency" | "specific_collocate" |
                      \* "general_collocate" | "pos_frequency"
    phrase_length,    \* task_configs["phrase_length"]
    discard_threshold,\* task_configs["discard_threshold"]
    words,            \* self.words: the words of interest
    n,                \* self.n: words after (n > 0) or before (n < 0) the word
    tagger,           \* token -> the tag nltk.pos_tag gives it
    apc,              \* "idle" | "map" | "done"
    pending,          \* partitions whose result imap_unordered has not yet given
    counts,           \* the list `counts`, in the order the results came
    master_count,     \* self.master_count
    order,            \* history: the partitions in the order their results came
    groups,           \* history: per line of the last partition, the groups yielded
    hits              \* history: per line of the last partition, the increments made

ingestVars == <<disk, files, resource_folder, chunk_size, n_processors, dirExists, parts,
                pc, err, fidx, file_size, pool, gpc, p, rpos, overlap, tasks,
                workers, runs, ingested, atLoad, written, dropped, yielded, skipped>>

analysisVars == <<task, phrase_length, discard_threshold, words, n, tagger, apc, pending,
                  counts, master_count, order, groups, hits>>

vars == <<ingestVars, analysisVars>>

(***************************************************************************)
(* Program constants.                                                      *)
(***************************************************************************)
\* range(1000): the partition slots _part_000 .. _part_999
NSlots == 1000
\* if self.file_size / self.chunk_size > 500
MaxPartitions == 500
\* '\n', the byte and the code point
NL == 10
\* ' ', the whitespace of the model's alphabet
SP == 32

(***************************************************************************)
(* Bounds of the model.                                                    *)
(***************************************************************************)
\* chunk_size ranges over 1..MaxChunk
MaxChunk == 2
\* n_processors ranges over 1..MaxProc
MaxProc == 2
\* number of raw files of a corpus
MaxFiles == 2
\* number of program runs (calls of load_resource) on the same file system
MaxRuns == 2
\* length of the raw file of the chunk walk taken alone
MaxRawLen == 5
\* chunks in flight between the generator and the workers, large corpus only
QueueCap == 1

(***************************************************************************)
(* Strings.                                                                *)
(***************************************************************************)
Min(a, b) == IF a < b THEN a ELSE b

\* bytes.decode("UTF-8") raises UnicodeDecodeError unless decodes(bs).
\* One- and two-byte sequences: the model's bytes are ASCII, a lead byte
\* 0xC2..0xDF and a continuation byte 0x80..0xBF.
RECURSIVE decodes(_)
decodes(bs) ==
    IF bs = <<>> THEN TRUE
    ELSE IF bs[1] < 128 THEN decodes(Tail(bs))
    ELSE IF bs[1] \in 194..223 /\ Len(bs) >= 2 /\ bs[2] \in 128..191
         THEN decodes(Tail(Tail(bs)))
    ELSE FALSE

RECURSIVE decode(_)
decode(bs) ==
    IF bs = <<>> THEN <<>>
    ELSE IF bs[1] < 128 THEN <<bs[1]>> \o decode(Tail(bs))
    ELSE <<(bs[1] - 192) * 64 + (bs[2] - 128)>> \o decode(Tail(Tail(bs)))

\* str.encode("UTF-8") of code points below 0x800
RECURSIVE encode(_)
encode(s) ==
    IF s = <<>> THEN <<>>
    ELSE IF s[1] < 128 THEN <<s[1]>> \o encode(Tail(s))
    ELSE <<192 + (s[1] \div 64), 128 + (s[1] % 64)>> \o encode(Tail(s))

\* the concatenation of a sequence of sequences
RECURSIVE Flatten(_)
Flatten(ss) == IF ss = <<>> THEN <<>> ELSE ss[1] \o Flatten(Tail(ss))

HasNL(s) == \E i \in 1..Len(s) : s[i] = NL
LastNL(s) == CHOOSE i \in 1..Len(s) : s[i] = NL /\ \A j \in (i+1)..Len(s) : s[j] # NL
FirstNL(s) == CHOOSE i \in 1..Len(s) : s[i] = NL /\ \A j \in 1..(i-1) : s[j] # NL

\* buffer.rsplit('\n', maxsplit=1): a list of two strings when the buffer holds
\* a newline, of one string (the unpacking raises ValueError) otherwise
rsplit(s) ==
    IF HasNL(s)
    THEN <<SubSeq(s, 1, LastNL(s) - 1), SubSeq(s, LastNL(s) + 1, Len(s))>>
    ELSE <<s>>

\* s.split('\n'): the pieces between the newlines, one more than newlines
RECURSIVE split_nl(_)
split_nl(s) ==
    IF ~HasNL(s) THEN <<s>>
    ELSE <<SubSeq(s, 1, FirstNL(s) - 1)>> \o split_nl(SubSeq(s, FirstNL(s) + 1, Len(s)))

\* chunk.splitlines(): as split('\n') without the empty piece after a final
\* newline; no line for the empty string
RECURSIVE splitlines(_)
splitlines(s) ==
    IF s = <<>> THEN <<>>
    ELSE IF ~HasNL(s) THEN <<s>>
    ELSE <<SubSeq(s, 1, FirstNL(s) - 1)>> \o splitlines(SubSeq(s, FirstNL(s) + 1, Len(s)))

\* str.lower() on the model's alphabet (A-Z, and the Latin-1 capitals)
lower(s) == [i \in 1..Len(s) |->
                IF s[i] \in 65..90 \/ s[i] \in (192..222) \ {215} THEN s[i] + 32
                ELSE s[i]]

\* line.split(): the maximal runs of non-whitespace
RECURSIVE split_ws(_)
split_ws(s) ==
    IF s = <<>> THEN <<>>
    ELSE IF s[1] = SP THEN split_ws(Tail(s))
    ELSE LET e == IF \E i \in 1..Len(s) : s[i] = SP
                  THEN (CHOOSE i \in 1..Len(s) : s[i] = SP /\ \A j \in 1..(i-1) : s[j] # SP) - 1
                  ELSE Len(s)
         IN  <<SubSeq(s, 1, e)>> \o split_ws(SubSeq(s, e + 1, Len(s)))

\* " ".join(tokens)
RECURSIVE join_sp(_)
join_sp(toks) ==
    IF toks = <<>> THEN <<>>
    ELSE IF Len(toks) = 1 THEN toks[1]
    ELSE toks[1] \o <<SP>> \o join_sp(Tail(toks))

\* configs["resources"][resource_type]: the token trims of pre_process_line
resource_configs == [lstrip |-> 0, rstrip |-> 0]

\* pre_process_line.  The translate tables (constants.NORM_TABLE, PUNC_TABLE)
\* leave the letters of the model's alphabet as they are.
pre_process_line(line) ==
    LET toks == split_ws(lower(line))
        l    == SubSeq(toks, resource_configs.lstrip + 1, Len(toks))
        r    == IF resource_configs.rstrip # 0
                THEN SubSeq(l, 1, Len(l) - resource_configs.rstrip)
                ELSE l
    IN  join_sp(r)

\* the text pre_process_chunk writes: every line pre-processed, plus "\n"
RECURSIVE pre_process_lines(_)
pre_process_lines(lines) ==
    IF lines = <<>> THEN <<>>
    ELSE pre_process_line(lines[1]) \o <<NL>> \o pre_process_lines(Tail(lines))

pre_process_text(chunk) == pre_process_lines(splitlines(chunk))

(***************************************************************************)
(* The partition directory.                                                *)
(***************************************************************************)
EmptyDir == [i \in {} |-> <<>>]

\* for i in range(1000): if not os.path.exists(fn): the first index with no file
FreeSlots(d) == {i \in 0..(NSlots - 1) : i \notin DOMAIN d}
FirstFree(d) == CHOOSE i \in FreeSlots(d) : \A j \in FreeSlots(d) : i <= j

\* open(fn, 'w'): the file is created, or truncated when it exists
OpenW(d, slot) == [i \in DOMAIN d \cup {slot} |-> IF i = slot THEN <<>> ELSE d[i]]

\* chunk_file.write(text) and the close at the end of `with`: the text goes to
\* offset 0 of the file, over what another writer may have put there
WriteAt0(d, slot, text) ==
    [i \in DOMAIN d \cup {slot} |->
        IF i = slot
        THEN IF slot \in DOMAIN d /\ Len(d[slot]) > Len(text)
             THEN text \o SubSeq(d[slot], Len(text) + 1, Len(d[slot]))
             ELSE text
        ELSE d[i]]

\* load_resource without the test of an empty folder
NeedsPreProcessAbsentOnly(exists, d) == ~exists

\* not os.path.isdir(folder) or not os.listdir(folder)
NeedsPreProcess(exists, d) == ~exists \/ DOMAIN d = {}

\* self.file_size / self.chunk_size > 500 (true division of two integers)
TooManyPartitions(size, cs) == size > MaxPartitions * cs

IdleWorker == [st |-> "idle", text |-> <<>>, slot |-> 0]

(***************************************************************************)
(* The corpora of the model.                                               *)
(***************************************************************************)
\* The small raw files: "" ; "\n" ; "\nA \n\n" ; "a\nb\n" ; "\n" 0xC3 "\n"
SmallDisk == [empty |-> <<>>, nl |-> <<NL>>, caps |-> <<NL, 65, SP, NL, NL>>,
              ab |-> <<97, NL, 98, NL>>, bad |-> <<NL, 195, NL>>]
\* a file too large for every chunk size of the model
BigFile == [i \in 1..(MaxPartitions * (MaxChunk + 1) + 1) |-> 97]
\* a file of 999 bytes, "a\n" 499 times and then "\n": 500 chunks of 2 bytes
LargeFile == [i \in 1..(2 * MaxPartitions - 1) |->
                 IF i % 2 = 0 \/ i = 2 * MaxPartitions - 1 THEN NL ELSE 97]
LargeNames == {"large1", "large2", "large3"}

\* the bytes of a raw file: the large files are not carried in the state
Content(name) ==
    IF name = "big" THEN BigFile
    ELSE IF name \in LargeNames THEN LargeFile
    ELSE disk[name]

\* what glob can list: distinct names, in any order
RawNames == DOMAIN SmallDisk \cup {"big"}
Corpora == UNION {{c \in [1..len -> RawNames] : \A i, j \in 1..len : i # j => c[i] # c[j]}
                    : len \in 0..MaxFiles}

(***************************************************************************)
(* load_resource, up to the first file of pre_process_resource.            *)
(***************************************************************************)
LoadResource ==
    /\ pc = "init"
    /\ atLoad' = [exists |-> dirExists, parts |-> parts]
    /\ IF ~resource_folder
       THEN \* raise Exception("Resource folder not found...")
            /\ pc' = "error" /\ err' = "ResourceNotFound"
            /\ UNCHANGED <<dirExists, fidx, pool, ingested>>
       ELSE IF NeedsPreProcess(dirExists, parts)
       THEN /\ ingested' = TRUE
            /\ IF files = <<>>
               THEN \* raise FileNotFoundError("No resource files found...")
                    /\ pc' = "error" /\ err' = "NoResourceFiles"
                    /\ UNCHANGED <<dirExists, fidx>>
               ELSE \* os.mkdir(self.pre_processed_folder); for filename in files
                    /\ dirExists' = TRUE
                    /\ pc' = "file" /\ fidx' = 1
                    /\ UNCHANGED err
            /\ UNCHANGED pool
       ELSE \* self.pool = glob.glob(<language>_part_*)
            /\ pc' = "loaded" /\ pool' = DOMAIN parts
            /\ UNCHANGED <<dirExists, fidx, err, ingested>>
    /\ UNCHANGED <<disk, files, resource_folder, chunk_size, n_processors, parts, file_size,
                   gpc, p, rpos, overlap, tasks, workers, runs, written, dropped,
                   yielded, skipped, analysisVars>>

\* the head of `for filename in files`: the size check, then the Pool and the
\* generator of this file; after the last file load_resource lists the partitions
NextFile ==
    /\ pc = "file"
    /\ IF fidx > Len(files)
       THEN /\ pc' = "loaded" /\ pool' = DOMAIN parts
            /\ UNCHANGED <<file_size, dirExists, parts, err, gpc, p, rpos, overlap,
                           workers, yielded, skipped>>
       ELSE /\ file_size' = Len(Content(files[fidx]))
            /\ IF TooManyPartitions(Len(Content(files[fidx])), chunk_size)
               THEN \* rmtree(self.pre_processed_folder); raise ValueError
                    /\ dirExists' = FALSE /\ parts' = EmptyDir
                    /\ pc' = "error" /\ err' = "TooManyPartitions"
                    /\ UNCHANGED <<gpc, p, rpos, overlap, workers, yielded, skipped>>
               ELSE /\ pc' = "walk" /\ gpc' = "run"
                    /\ p' = 0 /\ rpos' = 0 /\ overlap' = <<>>
                    /\ workers' = [w \in 1..n_processors |-> IdleWorker]
                    /\ yielded' = <<>> /\ skipped' = FALSE
                    /\ UNCHANGED <<dirExists, parts, err>>
            /\ UNCHANGED pool
    /\ UNCHANGED <<disk, files, resource_folder, chunk_size, n_processors, fidx, tasks,
                   runs, ingested, atLoad, written, dropped, analysisVars>>

(***************************************************************************)
(* generate_chunk: one iteration of `while p <= self.file_size`.           *)
(***************************************************************************)
\* resource.read(n): the n bytes (fewer at the end of the file) at rpos
ReadLen == IF file_size - p < chunk_size THEN file_size - p ELSE chunk_size
Raw == Content(files[fidx])
Window == SubSeq(Raw, rpos + 1, Min(rpos + ReadLen, Len(Raw)))
Buffer == overlap \o decode(Window)

GenUnchanged == <<disk, files, resource_folder, chunk_size, n_processors, dirExists, parts,
                  pc, err, fidx, file_size, pool, workers, runs, ingested, atLoad,
                  written, dropped, analysisVars>>

\* the window decodes and the buffer holds a newline: yield buffer
GenYield(cap) ==
    /\ pc = "walk" /\ gpc = "run" /\ p <= file_size
    /\ Len(tasks) < cap
    /\ decodes(Window) /\ Len(rsplit(Buffer)) = 2
    /\ tasks' = Append(tasks, rsplit(Buffer)[1])
    /\ yielded' = Append(yielded, rsplit(Buffer)[1])
    /\ overlap' = rsplit(Buffer)[2]
    /\ rpos' = rpos + Len(Window)
    /\ p' = p + chunk_size
    /\ UNCHANGED <<gpc, skipped>>
    /\ UNCHANGED GenUnchanged

\* except: p += self.chunk_size; continue (the bytes are read, overlap is kept)
GenSkip ==
    /\ pc = "walk" /\ gpc = "run" /\ p <= file_size
    /\ ~decodes(Window)
    /\ rpos' = rpos + Len(Window)
    /\ p' = p + chunk_size
    /\ skipped' = TRUE
    /\ UNCHANGED <<gpc, overlap, tasks, yielded>>
    /\ UNCHANGED GenUnchanged

\* buffer, overlap = buffer.rsplit('\n', maxsplit=1) with no newline in the
\* buffer: ValueError (not enough values to unpack), outside the try
GenRaise ==
    /\ pc = "walk" /\ gpc = "run" /\ p <= file_size
    /\ decodes(Window) /\ Len(rsplit(Buffer)) = 1
    /\ rpos' = rpos + Len(Window)
    /\ gpc' = "raised"
    /\ UNCHANGED <<p, overlap, tasks, yielded, skipped>>
    /\ UNCHANGED GenUnchanged

\* the loop ends: p > self.file_size
GenExit ==
    /\ pc = "walk" /\ gpc = "run" /\ p > file_size
    /\ gpc' = "end"
    /\ UNCHANGED <<p, rpos, overlap, tasks, yielded, skipped>>
    /\ UNCHANGED GenUnchanged

(***************************************************************************)
(* pre_process_chunk in a worker of the Pool.                              *)
(***************************************************************************)
WorkerUnchanged == <<disk, files, resource_folder, chunk_size, n_processors, dirExists,
                     pc, err, fidx, file_size, pool, gpc, p, rpos, overlap, runs,
                     ingested, atLoad, yielded, skipped, analysisVars>>

\* the worker takes a chunk, builds the text and scans for the first index
\* whose file does not exist
Scan(w) ==
    /\ pc = "walk" /\ workers[w].st = "idle" /\ tasks # <<>>
    /\ tasks' = Tail(tasks)
    /\ IF FreeSlots(parts) = {}
       THEN \* the for loop ends without a break: the function returns
            /\ workers' = workers
            /\ dropped' = dropped + 1
       ELSE /\ workers' = [workers EXCEPT ![w] =
                              [st |-> "found", text |-> pre_process_text(Head(tasks)),
                               slot |-> FirstFree(parts)]]
            /\ UNCHANGED dropped
    /\ UNCHANGED <<parts, written>>
    /\ UNCHANGED WorkerUnchanged

\* with open(fn, 'w', encoding="UTF-8") as chunk_file
Open(w) ==
    /\ pc = "walk" /\ workers[w].st = "found"
    /\ parts' = OpenW(parts, workers[w].slot)
    /\ workers' = [workers EXCEPT ![w].st = "opened"]
    /\ written' = written + 1
    /\ UNCHANGED <<tasks, dropped>>
    /\ UNCHANGED WorkerUnchanged

\* chunk_file.write(text), the file is closed, break
Write(w) ==
    /\ pc = "walk" /\ workers[w].st = "opened"
    /\ parts' = WriteAt0(parts, workers[w].slot, workers[w].text)
    /\ workers' = [workers EXCEPT ![w] = IdleWorker]
    /\ UNCHANGED <<tasks, written, dropped>>
    /\ UNCHANGED WorkerUnchanged

\* `for _ in tqdm.tqdm(pool.imap(...))` ends: every result is in, or the
\* generator's exception is re-raised after the results before it
WalkDone ==
    /\ pc = "walk" /\ gpc \in {"end", "raised"}
    /\ tasks = <<>> /\ \A w \in DOMAIN workers : workers[w].st = "idle"
    /\ IF gpc = "raised"
       THEN pc' = "error" /\ err' = "ValueError" /\ UNCHANGED fidx
       ELSE pc' = "file" /\ fidx' = fidx + 1 /\ UNCHANGED err
    /\ gpc' = "idle"
    /\ UNCHANGED <<disk, files, resource_folder, chunk_size, n_processors, dirExists, parts,
                   file_size, pool, p, rpos, overlap, tasks, workers, runs, ingested,
                   atLoad, written, dropped, yielded, skipped, analysisVars>>

(***************************************************************************)
(* The next run of the program on the same file system.                    *)
(***************************************************************************)
Restart ==
    /\ pc \in {"loaded", "error"} /\ runs < MaxRuns
    /\ pc' = "init" /\ err' = "" /\ runs' = runs + 1
    /\ ingested' = FALSE /\ written' = 0 /\ dropped' = 0
    /\ fidx' = 0 /\ file_size' = 0 /\ pool' = {}
    /\ p' = 0 /\ rpos' = 0 /\ overlap' = <<>> /\ yielded' = <<>> /\ skipped' = FALSE
    /\ workers' = [w \in 1..n_processors |-> IdleWorker]
    /\ UNCHANGED <<disk, files, resource_folder, chunk_size, n_processors, dirExists, parts,
                   gpc, tasks, atLoad, analysisVars>>

\* the raw source is replaced between two runs
ChangeRaw ==
    /\ pc \in {"loaded", "error"} /\ runs < MaxRuns
    /\ \E f \in RawNames : files' = <<f>> /\ files' # files
    /\ UNCHANGED <<disk, resource_folder, chunk_size, n_processors, dirExists, parts,
                   pc, err, fidx, file_size, pool, gpc, p, rpos, overlap, tasks,
                   workers, runs, ingested, atLoad, written, dropped, yielded, skipped,
                   analysisVars>>

(***************************************************************************)
(* Specifications.                                                         *)
(***************************************************************************)
\* no analysis is running
InitNoTask ==
    /\ task = "none" /\ phrase_length = 1 /\ discard_threshold = 0
    /\ words = <<>> /\ n = 1 /\ tagger = <<>>
    /\ apc = "idle" /\ pending = {} /\ counts = <<>>
    /\ master_count = <<>> /\ order = <<>> /\ groups = <<>> /\ hits = <<>>

InitLocals ==
    /\ InitNoTask
    /\ pc = "init" /\ err = "" /\ fidx = 0 /\ file_size = 0 /\ pool = {}
    /\ gpc = "idle" /\ p = 0 /\ rpos = 0 /\ overlap = <<>>
    /\ tasks = <<>> /\ workers = [w \in 1..n_processors |-> IdleWorker]
    /\ runs = 1 /\ ingested = FALSE
    /\ atLoad = [exists |-> FALSE, parts |-> EmptyDir]
    /\ written = 0 /\ dropped = 0 /\ yielded = <<>> /\ skipped = FALSE

\* the first run of the program: no pre-processed folder yet
Init ==
    /\ disk = SmallDisk
    /\ files \in Corpora
    /\ resource_folder \in BOOLEAN
    /\ chunk_size \in 1..MaxChunk
    /\ n_processors \in 1..MaxProc
    /\ dirExists = FALSE /\ parts = EmptyDir
    /\ InitLocals

\* pool.imap queues every chunk the generator yields: a file that passes the
\* size check yields at most MaxPartitions + 1 chunks, so this cap never binds
NoCap == MaxPartitions + 2

Next ==
    \/ LoadResource
    \/ NextFile
    \/ GenYield(NoCap)
    \/ GenSkip
    \/ GenRaise
    \/ GenExit
    \/ \E w \in DOMAIN workers : Scan(w)
    \/ \E w \in DOMAIN workers : Open(w)
    \/ \E w \in DOMAIN workers : Write(w)
    \/ WalkDone
    \/ Restart
    \/ ChangeRaw

Spec == Init /\ [][Next]_vars

(***************************************************************************)
(* The chunk walk of one raw file taken alone: every raw file over the     *)
(* bytes 'a', '\n', 0xC3, 0xA9 up to MaxRawLen bytes, every chunk size.    *)
(***************************************************************************)
WalkBytes == {97, NL, 195, 169}
WalkFiles == UNION {[1..len -> WalkBytes] : len \in 0..MaxRawLen}

InitChunk ==
    /\ \E raw \in WalkFiles : disk = [resource |-> raw] /\ file_size = Len(raw)
    /\ files = <<"resource">>
    /\ resource_folder = TRUE
    /\ chunk_size \in 1..(MaxChunk + 1)
    /\ n_processors = 1
    /\ dirExists = TRUE /\ parts = EmptyDir
    /\ pc = "walk" /\ err = "" /\ fidx = 1 /\ pool = {}
    /\ gpc = "run" /\ p = 0 /\ rpos = 0 /\ overlap = <<>>
    /\ tasks = <<>> /\ workers = [w \in 1..n_processors |-> IdleWorker]
    /\ runs = 1 /\ ingested = TRUE
    /\ atLoad = [exists |-> FALSE, parts |-> EmptyDir]
    /\ written = 0 /\ dropped = 0 /\ yielded = <<>> /\ skipped = FALSE
    /\ InitNoTask

NextChunk ==
    \/ GenYield(NoCap)
    \/ GenSkip
    \/ GenRaise
    \/ GenExit

SpecChunk == InitChunk /\ [][NextChunk]_vars

(***************************************************************************)
(* A corpus of three raw files of 999 bytes with chunk_size 2: 500 chunks  *)
(* a file, each file under the size check.                                 *)
(***************************************************************************)
InitSlots ==
    /\ disk = SmallDisk
    /\ files = <<"large1", "large2", "large3">>
    /\ resource_folder = TRUE
    /\ chunk_size = 2
    /\ n_processors = 1
    /\ dirExists = FALSE /\ parts = EmptyDir
    /\ InitLocals

NextSlots ==
    \/ LoadResource
    \/ NextFile
    \/ GenYield(QueueCap)
    \/ GenExit
    \/ \E w \in DOMAIN workers : Scan(w)
    \/ \E w \in DOMAIN workers : Open(w)
    \/ \E w \in DOMAIN workers : Write(w)
    \/ WalkDone

SpecSlots == InitSlots /\ [][NextSlots]_vars

(***************************************************************************)
(* Counters (collections.Counter): a function from the keys present to     *)
(* their counts.                                                           *)
(***************************************************************************)
EmptyCounter == [k \in {} |-> 0]

\* cnt[key], 0 for a missing key
Get(cnt, key) == IF key \in DOMAIN cnt THEN cnt[key] ELSE 0

\* cnt[key] += 1
Incr(cnt, key) == [k \in DOMAIN cnt \cup {key} |-> Get(cnt, k) + (IF k = key THEN 1 ELSE 0)]

RECURSIVE IncrAll(_, _)
IncrAll(cnt, keys) ==
    IF keys = <<>> THEN cnt ELSE IncrAll(Incr(cnt, Head(keys)), Tail(keys))

\* a dict.update in place of the addition: the counts of b replace those of a
CounterUpdate(a, b) ==
    [k \in DOMAIN a \cup DOMAIN b |-> IF k \in DOMAIN b THEN b[k] ELSE a[k]]

\* a += b (Counter.__iadd__): the counts are added, only positive ones kept
CounterAdd(a, b) ==
    [k \in {x \in DOMAIN a \cup DOMAIN b : Get(a, x) + Get(b, x) > 0} |->
        Get(a, k) + Get(b, k)]

\* `for line in f`: the lines of a partition file
file_lines(text) == splitlines(text)

(***************************************************************************)
(* Frequency.                                                              *)
(***************************************************************************)
\* generate_groups: for i in range(len(line)-l): ' '.join(line[i:i+l])
generate_groups(line, l) ==
    [i \in 1..(IF Len(line) - l > 0 THEN Len(line) - l ELSE 0) |->
        join_sp(SubSeq(line, i, i + l - 1))]

\* the Counter of process before reduce_count
count_groups(text, l) ==
    IncrAll(EmptyCounter,
            Flatten([j \in 1..Len(file_lines(text)) |->
                        generate_groups(split_ws(file_lines(text)[j]), l)]))

\* reduce_count: only the keys whose count exceeds the threshold
reduce_count(cnt, thresh) ==
    [k \in {x \in DOMAIN cnt : cnt[x] > thresh} |-> cnt[k]]

\* Frequency.process(file)
process(text) == reduce_count(count_groups(text, phrase_length), discard_threshold)

\* every count merged twice
RECURSIVE merge_flat_twice(_)
merge_flat_twice(cs) ==
    IF cs = <<>> THEN EmptyCounter
    ELSE CounterAdd(CounterAdd(merge_flat_twice(SubSeq(cs, 1, Len(cs) - 1)), cs[Len(cs)]),
                    cs[Len(cs)])

\* master_count = Counter(); for count in counts: master_count += count
RECURSIVE merge_flat(_)
merge_flat(cs) ==
    IF cs = <<>> THEN EmptyCounter
    ELSE CounterAdd(merge_flat(SubSeq(cs, 1, Len(cs) - 1)), cs[Len(cs)])

(***************************************************************************)
(* SpecificCollocate.                                                      *)
(***************************************************************************)
\* 'TOTAL'
TOTAL == <<84, 79, 84, 65, 76>>

WordSet(ws) == {ws[i] : i \in 1..Len(ws)}

\* s[a:b] of a Python list, a and b any integers
PyIndex(len, a) == IF a < 0 THEN (IF a + len < 0 THEN 0 ELSE a + len)
                   ELSE (IF a > len THEN len ELSE a)
PySlice(s, a, b) == SubSeq(s, PyIndex(Len(s), a) + 1, PyIndex(Len(s), b))

\* count[word]['TOTAL'] = 1 in place of += 1
process_word_total_assigned(count, line, i, ws, nn) ==
    LET word == line[i + 1]
        neg  == IF nn < 0 THEN nn ELSE 1
        pos  == IF nn > 0 THEN nn + 1 ELSE 0
        tot  == [count EXCEPT ![word] =
                    [k \in DOMAIN @ \cup {TOTAL} |-> IF k = TOTAL THEN 1 ELSE @[k]]]
    IN  IF word \notin WordSet(ws) THEN count
        ELSE IF i - neg < 0 \/ i + pos > Len(line) - 1 THEN tot
        ELSE [tot EXCEPT ![word] = Incr(@, join_sp(PySlice(line, i + neg, i + pos)))]

\* the body of `for i, word in enumerate(line)` of process_line, i from 0
process_word(count, line, i, ws, nn) ==
    LET word == line[i + 1]
        neg  == IF nn < 0 THEN nn ELSE 1
        pos  == IF nn > 0 THEN nn + 1 ELSE 0
        tot  == [count EXCEPT ![word] = Incr(@, TOTAL)]
    IN  IF word \notin WordSet(ws) THEN count
        ELSE IF i - neg < 0 \/ i + pos > Len(line) - 1 THEN tot
        ELSE [tot EXCEPT ![word] = Incr(@, join_sp(PySlice(line, i + neg, i + pos)))]

RECURSIVE process_words(_, _, _, _, _)
process_words(count, line, i, ws, nn) ==
    IF i >= Len(line) THEN count
    ELSE process_words(process_word(count, line, i, ws, nn), line, i + 1, ws, nn)

\* SpecificCollocate.process_line(count, line, words, n)
process_line(count, line, ws, nn) == process_words(count, split_ws(line), 0, ws, nn)

RECURSIVE process_lines(_, _, _, _)
process_lines(count, lines, ws, nn) ==
    IF lines = <<>> THEN count
    ELSE process_lines(process_line(count, Head(lines), ws, nn), Tail(lines), ws, nn)

\* SpecificCollocate.process(file)
collocate_process(text) ==
    process_lines([w \in WordSet(words) |-> EmptyCounter], file_lines(text), words, n)

\* master_count = {word: Counter() for word in self.words}
\* for count in counts: for word in master_count: master_count[word] += count[word]
RECURSIVE merge_words(_, _)
merge_words(ws, cs) ==
    IF cs = <<>> THEN [w \in WordSet(ws) |-> EmptyCounter]
    ELSE [w \in WordSet(ws) |->
            CounterAdd(merge_words(ws, SubSeq(cs, 1, Len(cs) - 1))[w], cs[Len(cs)][w])]

(***************************************************************************)
(* GeneralCollocateAnalysis.                                               *)
(***************************************************************************)
\* for n in [-2, -1, 1, 2]
Offsets == <<-2, -1, 1, 2>>

\* the body of `for i, word in enumerate(line)` of process_line, i from 0:
\* the increments count[word][phrase] += 1 it makes, one record for each, in
\* the order of the loop over n
general_word(line, i, ws) ==
    LET word == line[i + 1]
    IN  IF word \notin WordSet(ws) THEN <<>>
        ELSE Flatten([x \in 1..Len(Offsets) |->
                LET nn  == Offsets[x]
                    neg == IF nn < 0 THEN nn ELSE 1
                    pos == IF nn > 0 THEN nn + 1 ELSE 0
                IN  IF i - neg < 0 \/ i + pos > Len(line) - 1 THEN <<>>
                    ELSE <<[i |-> i, o |-> nn, word |-> word,
                            phrase |-> join_sp(PySlice(line, i + neg, i + pos))]>>])

\* the increments of process_line over the tokens of the line
general_line(line, ws) ==
    Flatten([t \in 1..Len(split_ws(line)) |-> general_word(split_ws(line), t - 1, ws)])

\* count[word][phrase] += 1 for every increment of the sequence
RECURSIVE IncrHits(_, _)
IncrHits(count, hs) ==
    IF hs = <<>> THEN count
    ELSE IncrHits([count EXCEPT ![Head(hs).word] = Incr(@, Head(hs).phrase)], Tail(hs))

\* GeneralCollocateAnalysis.process_line(count, line, words)
general_process_line(count, line, ws) == IncrHits(count, general_line(line, ws))

RECURSIVE general_process_lines(_, _, _)
general_process_lines(count, lines, ws) ==
    IF lines = <<>> THEN count
    ELSE general_process_lines(general_process_line(count, Head(lines), ws), Tail(lines), ws)

\* GeneralCollocateAnalysis.process(file)
general_process(text) ==
    general_process_lines([w \in WordSet(words) |-> EmptyCounter], file_lines(text), words)

(***************************************************************************)
(* PoSFrequency.  The tagger (nltk.pos_tag) is outside the program: a       *)
(* tagging gives every token a tag of the vocabulary or a tag outside it.  *)
(***************************************************************************)
\* co.POS_TAGS: the fixed tag vocabulary
POS_TAGS == {"A", "B"}
\* the tags of the tagger: the vocabulary and a tag that is not in it
Tags == POS_TAGS \cup {"X"}

\* the tokens of the lines of a partition
TokensOf(text) ==
    UNION {WordSet(split_ws(file_lines(text)[j])) : j \in 1..Len(file_lines(text))}

\* the taggings nltk.pos_tag may give the tokens of a set of partition texts
Taggings(texts) == [UNION {TokensOf(text) : text \in texts} -> Tags]

\* generate_groups: line = nltk.pos_tag(line);
\* for i in range(len(line)-1): yield line[i][1], line[i+1][1]
pos_generate_groups(line, tg) ==
    [i \in 1..(IF Len(line) - 1 > 0 THEN Len(line) - 1 ELSE 0) |->
        <<tg[line[i]], tg[line[i + 1]]>>]

\* try: count[first][second] += 1 / except KeyError: pass, for every pair;
\* count[first] of the dict raises KeyError, count[first][second] of the
\* Counter does not
RECURSIVE pos_count(_, _)
pos_count(count, pairs) ==
    IF pairs = <<>> THEN count
    ELSE pos_count(IF Head(pairs)[1] \in DOMAIN count
                   THEN [count EXCEPT ![Head(pairs)[1]] = Incr(@, Head(pairs)[2])]
                   ELSE count,
                   Tail(pairs))

\* PoSFrequency.process(file)
pos_process(text, tg) ==
    pos_count([t \in POS_TAGS |-> EmptyCounter],
              Flatten([j \in 1..Len(file_lines(text)) |->
                          pos_generate_groups(split_ws(file_lines(text)[j]), tg)]))

\* master_count = {word: Counter() for word in co.POS_TAGS}
\* for count in counts: for word in master_count: master_count[word] += count[word]
RECURSIVE merge_tags(_)
merge_tags(cs) ==
    IF cs = <<>> THEN [t \in POS_TAGS |-> EmptyCounter]
    ELSE [t \in POS_TAGS |->
            CounterAdd(merge_tags(SubSeq(cs, 1, Len(cs) - 1))[t], cs[Len(cs)][t])]

\* total_count: sum(count.values())
RECURSIVE total_count(_)
total_count(cnt) ==
    IF DOMAIN cnt = {} THEN 0
    ELSE LET k == CHOOSE x \in DOMAIN cnt : TRUE
         IN  cnt[k] + total_count([x \in DOMAIN cnt \ {k} |-> cnt[x]])

(***************************************************************************)
(* execute: the map over self.pool with imap_unordered, then the merge.    *)
(***************************************************************************)
AnalysisUnchanged == <<ingestVars, task, phrase_length, discard_threshold, words, n, tagger>>

\* execute starts the Pool over self.pool
Execute ==
    /\ pc = "loaded" /\ task # "none" /\ apc = "idle"
    /\ apc' = "map" /\ pending' = pool /\ counts' = <<>>
    /\ UNCHANGED <<master_count, order, groups, hits>>
    /\ UNCHANGED AnalysisUnchanged

\* the result of Frequency.process for partition i comes out of imap_unordered
FrequencyProcess(i) ==
    /\ apc = "map" /\ task = "frequency" /\ i \in pending
    /\ pending' = pending \ {i}
    /\ counts' = Append(counts, process(parts[i]))
    /\ order' = Append(order, i)
    /\ groups' = [j \in 1..Len(file_lines(parts[i])) |->
                     generate_groups(split_ws(file_lines(parts[i])[j]), phrase_length)]
    /\ UNCHANGED <<apc, master_count, hits>>
    /\ UNCHANGED AnalysisUnchanged

\* Frequency.execute: every result is in; the merge into master_count
FrequencyMerge ==
    /\ apc = "map" /\ task = "frequency" /\ pending = {}
    /\ master_count' = merge_flat(counts)
    /\ apc' = "done"
    /\ UNCHANGED <<pending, counts, order, groups, hits>>
    /\ UNCHANGED AnalysisUnchanged

\* the result of SpecificCollocate.process for partition i
CollocateProcess(i) ==
    /\ apc = "map" /\ task = "specific_collocate" /\ i \in pending
    /\ pending' = pending \ {i}
    /\ counts' = Append(counts, collocate_process(parts[i]))
    /\ order' = Append(order, i)
    /\ UNCHANGED <<apc, master_count, groups, hits>>
    /\ UNCHANGED AnalysisUnchanged

\* SpecificCollocate.execute: the merge per word of interest
CollocateMerge ==
    /\ apc = "map" /\ task = "specific_collocate" /\ pending = {}
    /\ master_count' = merge_words(words, counts)
    /\ apc' = "done"
    /\ UNCHANGED <<pending, counts, order, groups, hits>>
    /\ UNCHANGED AnalysisUnchanged

\* the result of GeneralCollocateAnalysis.process for partition i
GeneralProcess(i) ==
    /\ apc = "map" /\ task = "general_collocate" /\ i \in pending
    /\ pending' = pending \ {i}
    /\ counts' = Append(counts, general_process(parts[i]))
    /\ order' = Append(order, i)
    /\ hits' = [j \in 1..Len(file_lines(parts[i])) |->
                   general_line(file_lines(parts[i])[j], words)]
    /\ UNCHANGED <<apc, master_count, groups>>
    /\ UNCHANGED AnalysisUnchanged

\* GeneralCollocateAnalysis.execute: the merge per word
GeneralMerge ==
    /\ apc = "map" /\ task = "general_collocate" /\ pending = {}
    /\ master_count' = merge_words(words, counts)
    /\ apc' = "done"
    /\ UNCHANGED <<pending, counts, order, groups, hits>>
    /\ UNCHANGED AnalysisUnchanged

\* the result of PoSFrequency.process for partition i
PoSProcess(i) ==
    /\ apc = "map" /\ task = "pos_frequency" /\ i \in pending
    /\ pending' = pending \ {i}
    /\ counts' = Append(counts, pos_process(parts[i], tagger))
    /\ order' = Append(order, i)
    /\ UNCHANGED <<apc, master_count, groups, hits>>
    /\ UNCHANGED AnalysisUnchanged

\* PoSFrequency.execute: the merge per tag of the vocabulary
PoSMerge ==
    /\ apc = "map" /\ task = "pos_frequency" /\ pending = {}
    /\ master_count' = merge_tags(counts)
    /\ apc' = "done"
    /\ UNCHANGED <<pending, counts, order, groups, hits>>
    /\ UNCHANGED AnalysisUnchanged

(***************************************************************************)
(* The analyses of the model: partition directories of up to MaxParts      *)
(* files with the texts below, as pre_process_chunk leaves them.           *)
(***************************************************************************)
\* number of partition files
MaxParts == 2
\* phrase_length ranges over 1..MaxPhrase
MaxPhrase == 2
\* discard_threshold ranges over 0..MaxThresh
MaxThresh == 1

\* "a b a\nb\n" ; "a a b\n" ; "b a c\na b\n" ; "" (the partition of an empty chunk)
PartitionTexts == { <<97, SP, 98, SP, 97, NL, 98, NL>>,
                    <<97, SP, 97, SP, 98, NL>>,
                    <<98, SP, 97, SP, 99, NL, 97, SP, 98, NL>>,
                    <<>> }
PartitionDirs == UNION {[0..(len - 1) -> PartitionTexts] : len \in 0..MaxParts}
\* the words of interest "a" and "b"; the window sizes
WordsOfInterest == <<<<97>>, <<98>>>>
WindowSizes == {-2, -1, 1, 2}

\* load_resource has listed the partitions of an earlier ingestion
InitAnalysis ==
    /\ disk = SmallDisk /\ files = <<>> /\ resource_folder = TRUE
    /\ chunk_size = 1 /\ n_processors = 1
    /\ dirExists = TRUE /\ parts \in PartitionDirs
    /\ pc = "loaded" /\ err = "" /\ fidx = 0 /\ file_size = 0 /\ pool = DOMAIN parts
    /\ gpc = "idle" /\ p = 0 /\ rpos = 0 /\ overlap = <<>>
    /\ tasks = <<>> /\ workers = [w \in 1..n_processors |-> IdleWorker]
    /\ runs = 1 /\ ingested = FALSE
    /\ atLoad = [exists |-> TRUE, parts |-> parts]
    /\ written = 0 /\ dropped = 0 /\ yielded = <<>> /\ skipped = FALSE
    /\ \/ /\ task = "frequency"
          /\ phrase_length \in 1..MaxPhrase
          /\ discard_threshold \in 0..MaxThresh
          /\ words = <<>> /\ n = 1 /\ tagger = <<>>
       \/ /\ task = "specific_collocate"
          /\ phrase_length = 1 /\ discard_threshold = 0
          /\ words = WordsOfInterest /\ n \in WindowSizes /\ tagger = <<>>
       \/ /\ task = "general_collocate"
          /\ phrase_length = 1 /\ discard_threshold = 0
          /\ words = WordsOfInterest /\ n = 1 /\ tagger = <<>>
       \/ /\ task = "pos_frequency"
          /\ phrase_length = 1 /\ discard_threshold = 0
          /\ words = <<>> /\ n = 1 /\ tagger \in Taggings(PartitionTexts)
    /\ apc = "idle" /\ pending = {} /\ counts = <<>>
    /\ master_count = EmptyCounter /\ order = <<>> /\ groups = <<>> /\ hits = <<>>

NextAnalysis ==
    \/ Execute
    \/ \E i \in pool : FrequencyProcess(i)
    \/ FrequencyMerge
    \/ \E i \in pool : CollocateProcess(i)
    \/ CollocateMerge
    \/ \E i \in pool : GeneralProcess(i)
    \/ GeneralMerge
    \/ \E i \in pool : PoSProcess(i)
    \/ PoSMerge

SpecAnalysis == InitAnalysis /\ [][NextAnalysis]_vars

(***************************************************************************)
(* Claims on the ingestion.                                                *)
(***************************************************************************)
\* the lines of the raw file: its bytes between the newlines
RawLines(raw) == {split_nl(raw)[r] : r \in 1..Len(split_nl(raw))}

\* C1: every line of every chunk generate_chunk yields is one complete line
\* of the raw file, whatever windows fail to decode.
C1_YieldedLinesComplete ==
    pc = "walk" =>
        \A k \in 1..Len(yielded) :
            \A j \in 1..Len(splitlines(yielded[k])) :
                encode(splitlines(yielded[k])[j]) \in RawLines(Raw)

\* C2: when no window fails to decode, the chunk walk ends without raising
\* and the yielded chunks hold every newline-terminated line of the file
\* once, in file order.
C2_WalkYieldsEveryLine ==
    (pc = "walk" /\ gpc \in {"end", "raised"} /\ ~skipped) =>
        /\ gpc = "end"
        /\ Flatten([k \in 1..Len(yielded) |-> split_nl(yielded[k])])
             = SubSeq(split_nl(decode(Raw)), 1,
                      Len(split_nl(decode(Raw))) - 1)

\* C3: no two chunks are written to the same partition slot: two workers
\* never hold the same slot, and every file opened for writing is a new one.
C3_DistinctSlots ==
    pc = "walk" =>
        /\ \A v, w \in DOMAIN workers :
              (v # w /\ workers[v].st # "idle" /\ workers[w].st # "idle")
                  => workers[v].slot # workers[w].slot
        /\ Cardinality(DOMAIN parts) = written

\* C4: when the size check aborts the run, no partition file has been
\* written during the run and the pre-processed folder does not exist.
C4_AbortBeforeAnyWrite ==
    (pc = "error" /\ err = "TooManyPartitions") => (written = 0 /\ ~dirExists)

\* C5: pre_process_chunk never returns normally with its chunk written
\* nowhere (all slots taken is a fatal error).
C5_FullDirectoryIsFatal == dropped = 0

\* C6: when an ingestion run ends with an error, the pre-processed folder
\* holds no partition file.
C6_NoPartitionsAfterError ==
    (pc = "error" /\ ingested) => DOMAIN parts = {}

\* C7 as stated: load_resource runs the ingestion exactly when the
\* pre-processed folder is absent or empty at the call, and a call that finds
\* partitions leaves them as they are.
C7_IngestIffAbsentOrEmpty ==
    pc # "init" =>
        /\ ingested <=> (~atLoad.exists \/ DOMAIN atLoad.parts = {})
        /\ DOMAIN atLoad.parts # {} => (dirExists /\ parts = atLoad.parts)

\* C7 amended: when the resource folder exists, load_resource runs the
\* ingestion exactly when the pre-processed folder is absent or empty at the
\* call (without the resource folder it raises and ingests nothing); a call
\* that finds partitions never ingests and leaves every partition as it is.
C7_IngestIffAbsentOrEmptyInResourceFolder ==
    pc # "init" =>
        /\ resource_folder =>
              (ingested <=> (~atLoad.exists \/ DOMAIN atLoad.parts = {}))
        /\ ~resource_folder => ~ingested
        /\ DOMAIN atLoad.parts # {} =>
              (~ingested /\ dirExists /\ parts = atLoad.parts)

\* a second run that lists, without ingesting, partitions the changed corpus
\* (now one file over the size limit) cannot have produced
C7_Witness ==
    /\ pc = "loaded" /\ runs = 2 /\ ~ingested
    /\ files = <<"big">> /\ DOMAIN parts # {} /\ pool = DOMAIN parts

(***************************************************************************)
(* Claims on the analyses.                                                 *)
(***************************************************************************)
\* the partitions of self.pool in index order
RECURSIVE InOrder(_)
InOrder(S) ==
    IF S = {} THEN <<>>
    ELSE LET least == CHOOSE x \in S : \A y \in S : x <= y
         IN  <<least>> \o InOrder(S \ {least})

RECURSIVE SumOver(_, _)
SumOver(S, key) ==
    IF S = {} THEN 0
    ELSE LET i == CHOOSE x \in S : TRUE
         IN  Get(count_groups(parts[i], phrase_length), key) + SumOver(S \ {i}, key)

\* the sum over the partitions of the count of a key before reduce_count
TrueCount(key) == SumOver(pool, key)

\* the result that came for partition i
ResultOf(i) == counts[CHOOSE c \in 1..Len(order) : order[c] = i]

\* C8: whatever the order in which imap_unordered gives the results, the
\* merged master_count is the one of the merge in index order: the same keys
\* with the same counts, for Frequency, per word for the collocate analyses
\* and per tag for PoSFrequency.
C8_MergeOrderIndependent ==
    apc = "done" =>
        master_count =
            CASE task = "frequency" ->
                    merge_flat([i \in 1..Cardinality(pool) |-> process(parts[InOrder(pool)[i]])])
              [] task = "specific_collocate" ->
                    merge_words(words, [i \in 1..Cardinality(pool) |->
                                           collocate_process(parts[InOrder(pool)[i]])])
              [] task = "general_collocate" ->
                    merge_words(words, [i \in 1..Cardinality(pool) |->
                                           general_process(parts[InOrder(pool)[i]])])
              [] task = "pos_frequency" ->
                    merge_tags([i \in 1..Cardinality(pool) |-> ResultOf(InOrder(pool)[i])])

\* two results that came against the index order and disagree on a shared key
C8_Witness ==
    /\ apc = "done" /\ task = "frequency" /\ order = <<1, 0>>
    /\ \E k \in DOMAIN counts[1] \cap DOMAIN counts[2] : counts[1][k] # counts[2][k]
    /\ \E k \in DOMAIN master_count : master_count[k] = counts[1][k] + counts[2][k]

\* C9: every worker returns only keys counted more often than the threshold
\* in its partition, and every key of the merged Frequency aggregate has a
\* count at most its true global count.
C9_MergedCountAtMostTrueCount ==
    task = "frequency" =>
        /\ \A c \in 1..Len(counts) :
              \A k \in DOMAIN counts[c] : counts[c][k] > discard_threshold
        /\ apc = "done" =>
              \A k \in DOMAIN master_count : master_count[k] <= TrueCount(k)

\* a key kept by one partition and pruned in another: merged below the true count
C9_Witness ==
    /\ apc = "done" /\ task = "frequency" /\ discard_threshold >= 1
    /\ \E k \in DOMAIN master_count : master_count[k] < TrueCount(k)

\* the phrases of l tokens starting at tokens 0..m-l, none when l > m
AllWindows(line, l) ==
    [i \in 1..(IF Len(line) - l + 1 > 0 THEN Len(line) - l + 1 ELSE 0) |->
        join_sp(SubSeq(line, i, i + l - 1))]

\* C10: for every line of the partition processed last, generate_groups
\* yielded the m-L+1 phrases of tokens i..i+L-1, i = 0..m-L, in that order
\* (the one ending on the last token included), and nothing when L > m.
C10_GroupsAreAllWindows ==
    (task = "frequency" /\ order # <<>>) =>
        \A j \in 1..Len(groups) :
            groups[j] = AllWindows(split_ws(file_lines(parts[order[Len(order)]])[j]),
                                   phrase_length)

\* the tokens of every line of every partition of self.pool
AllTokens ==
    Flatten([c \in 1..Cardinality(pool) |->
        Flatten([j \in 1..Len(file_lines(parts[InOrder(pool)[c]])) |->
                    split_ws(file_lines(parts[InOrder(pool)[c]])[j])])])

\* the number of times key occurs in the sequence toks
Occurrences(toks, key) == Cardinality({t \in 1..Len(toks) : toks[t] = key})

\* C11: with phrase_length = 1 and discard_threshold = 0 the merged count of
\* every word is the number of times the word occurs as a token in the lines
\* of all partitions.
C11_WordCountsExact ==
    (task = "frequency" /\ apc = "done" /\ phrase_length = 1 /\ discard_threshold = 0) =>
        \A k \in DOMAIN master_count \cup {AllTokens[t] : t \in 1..Len(AllTokens)} :
            Get(master_count, k) = Occurrences(AllTokens, k)

\* C12: when the walk of generate_chunk has ended (no window skipped), the
\* lines of the yielded chunks are all the lines of the file, the text after
\* the last newline included when there is any.
C12_FinalOverlapFlushed ==
    (pc = "walk" /\ gpc = "end" /\ ~skipped) =>
        LET all == split_nl(decode(Raw))
        IN  Flatten([k \in 1..Len(yielded) |-> split_nl(yielded[k])])
              = IF all[Len(all)] = <<>> THEN SubSeq(all, 1, Len(all) - 1) ELSE all

\* the window of |nn| tokens after (nn > 0) or before (nn < 0) token i of a
\* line of m tokens, i from 0, lies inside the line
WindowInside(m, i, nn) == IF nn > 0 THEN i + nn <= m - 1 ELSE i + nn >= 0

\* the phrase of that window: tokens i+1..i+nn, or i+nn..i-1
WindowPhrase(line, i, nn) ==
    IF nn > 0 THEN join_sp(SubSeq(line, i + 2, i + nn + 1))
    ELSE join_sp(SubSeq(line, i + nn + 1, i))

\* one count per occurrence of the anchor w whose window lies inside its line
ExpectedWindows(text, w, nn) ==
    IncrAll(EmptyCounter,
        Flatten([j \in 1..Len(file_lines(text)) |->
            LET line == split_ws(file_lines(text)[j])
            IN  Flatten([t \in 1..Len(line) |->
                    IF line[t] = w /\ WindowInside(Len(line), t - 1, nn)
                    THEN <<WindowPhrase(line, t - 1, nn)>> ELSE <<>>])]))

\* the entries of a Counter other than 'TOTAL'
WindowKeys(cnt) == [k \in DOMAIN cnt \ {TOTAL} |-> cnt[k]]

\* C13: in every result of SpecificCollocate.process and for every anchor,
\* the window keys count exactly the occurrences of the anchor whose window
\* of |n| tokens lies inside the line, each under the phrase of that window;
\* an occurrence whose window leaves the line counts under no key.
C13_WindowsInsideLineCounted ==
    task = "specific_collocate" =>
        \A c \in 1..Len(counts) :
            \A w \in WordSet(words) :
                WindowKeys(counts[c][w]) = ExpectedWindows(parts[order[c]], w, n)

\* the number of increments made for token i of a line at offset o
HitsAt(hs, i, o) == Cardinality({x \in 1..Len(hs) : hs[x].i = i /\ hs[x].o = o})

\* C14: for every line of the partition processed last, every anchor at
\* position i of the m tokens and every offset o of -2, -1, +1, +2, the
\* anchor's table is incremented once for o when 0 <= i+o <= m-1 and not at
\* all otherwise; every phrase counted is non-empty and made of tokens of the
\* line.
C14_OneIncrementPerOffsetInside ==
    (task = "general_collocate" /\ order # <<>>) =>
        \A j \in 1..Len(hits) :
            LET line == split_ws(file_lines(parts[order[Len(order)]])[j])
            IN  /\ \A t \in 1..Len(line) : \A x \in 1..Len(Offsets) :
                      line[t] \in WordSet(words) =>
                          HitsAt(hits[j], t - 1, Offsets[x]) =
                              IF 0 <= t - 1 + Offsets[x] /\ t - 1 + Offsets[x] <= Len(line) - 1
                              THEN 1 ELSE 0
                /\ \A x \in 1..Len(hits[j]) :
                      /\ hits[j][x].phrase # <<>>
                      /\ WordSet(split_ws(hits[j][x].phrase)) \subseteq WordSet(line)

\* the sum of the counts of a row under the tags of the vocabulary
VocabularyTotal(cnt) == total_count([t \in DOMAIN cnt \cap POS_TAGS |-> cnt[t]])

\* a matrix whose rows and columns are tags of the vocabulary only
OnlyVocabulary(matrix) ==
    /\ DOMAIN matrix \subseteq POS_TAGS
    /\ \A row \in DOMAIN matrix :
          /\ DOMAIN matrix[row] \subseteq POS_TAGS
          /\ total_count(matrix[row]) = VocabularyTotal(matrix[row])

\* C15: every result of PoSFrequency.process and the merged master_count
\* hold only tags of the vocabulary, as rows and as columns, so the total of
\* each row is the sum of its counts under the tags of the vocabulary.
C15_MatrixOnlyVocabulary ==
    task = "pos_frequency" =>
        /\ \A c \in 1..Len(counts) : OnlyVocabulary(counts[c])
        /\ apc = "done" => OnlyVocabulary(master_count)

\* in every Counter of the table no window key counts more than 'TOTAL'
TotalDominates(table) ==
    \A w \in DOMAIN table :
        \A k \in DOMAIN table[w] \ {TOTAL} : Get(table[w], TOTAL) >= table[w][k]

\* C16: in every result of SpecificCollocate.process, in the merge of any
\* number of the results in the order they came, and in master_count, the
\* count of 'TOTAL' of every anchor is at least the count of each of its
\* window keys.
C16_TotalAtLeastEveryWindow ==
    task = "specific_collocate" =>
        /\ \A c \in 1..Len(counts) : TotalDominates(counts[c])
        /\ \A c \in 0..Len(counts) : TotalDominates(merge_words(words, SubSeq(counts, 1, c)))
        /\ apc = "done" => TotalDominates(master_count)

\* two results merged in which a window key of an anchor counts as much as
\* its 'TOTAL', and an anchor with windows rejected (TOTAL strictly above)
C16_Witness ==
    /\ task = "specific_collocate" /\ apc = "done" /\ Len(counts) = 2
    /\ \E w \in DOMAIN master_count :
          \E k \in DOMAIN master_count[w] \ {TOTAL} :
              master_count[w][k] = master_count[w][TOTAL] /\ master_count[w][k] >= 2
    /\ \E w \in DOMAIN master_count :
          \E k \in DOMAIN master_count[w] \ {TOTAL} :
              master_count[w][k] < master_count[w][TOTAL]

====
